---- MODULE Spec2Model ----
(***************************************************************************)
(* A model of tom_alertstreams: the stream registry (get_alert_streams),   *)
(* the construction of a stream from its OPTIONS (AlertStream.__init__),   *)
(* the Hopskotch connection target (get_stream_url) and the receive loop   *)
(* of HopskotchAlertStream.listen.                                         *)
(*                                                                         *)
(* A Python str is a sequence of one-character strings, so that lower(),   *)
(* indexing, concatenation and join are computed and not assumed.  A       *)
(* Python value is a record with one field naming its type:                *)
(* [str |-> s], [list |-> l] or [bool |-> b].                              *)
(***************************************************************************)
EXTENDS Integers, Sequences, FiniteSets

VARIABLES
    \* get_alert_streams
    alert_stream_configs,   \* the argument: a list of [NAME, OPTIONS]
    cfg_i,                  \* position of the for loop
    alert_streams,          \* the list being built
    gas_pc,                 \* "loop", "returned" or "raised"
    gas_exc,                \* the exception that left get_alert_streams
    gas_trace,              \* what the loop did, in order, per entry
    \* klass(OPTIONS as keyword arguments)
    klass,                  \* the class being instantiated
    kwargs,                 \* the OPTIONS passed as keyword arguments
    new_pc,                 \* "call" or "done"
    new_result,             \* the instance, or the exception raised
    \* get_stream_url
    self,                   \* a constructed HopskotchAlertStream
    url_pc,                 \* "call" or "done"
    url_result,             \* the target, or the exception raised
    \* listen
    lst_self,               \* the stream that listens
    lst_pc,                 \* "start", "reading" or "raised"
    lst_n,                  \* messages read so far
    lst_last,               \* the message read last
    lst_calls,              \* handler invocations, in order
    lst_log,                \* log records emitted, in order
    lst_exc,                \* the exception that left listen()
    \* Command.handle
    sup_pc,                 \* position of handle()
    sup_build,              \* how get_default_alert_streams() ended
    sup_streams,            \* alert_streams, as get_default_alert_streams returned it
    sup_cur,                \* the loop variable alert_stream: an index, 0 when unbound
    sup_procs,              \* alert_stream_processes, with the state of each process
    sup_log,                \* log records emitted, in order
    sup_signal,             \* where a KeyboardInterrupt reached handle(), if one did
    sup_j,                  \* position of the sweep over alert_stream_processes
    \* _get_hop_authentication
    environ,                \* os.environ: SCIMMA_AUTH_USERNAME and SCIMMA_AUTH_PASSWORD
    auth_pc,                \* "call" or "done"
    auth_result             \* the Auth, or the exception raised

gas_vars == <<alert_stream_configs, cfg_i, alert_streams, gas_pc, gas_exc, gas_trace>>
new_vars == <<klass, kwargs, new_pc, new_result>>
url_vars == <<self, url_pc, url_result>>
lst_vars == <<lst_self, lst_pc, lst_n, lst_last, lst_calls, lst_log, lst_exc>>
sup_vars == <<sup_pc, sup_build, sup_streams, sup_cur, sup_procs, sup_log, sup_signal, sup_j>>
auth_vars == <<environ, auth_pc, auth_result>>
vars == <<gas_vars, new_vars, url_vars, lst_vars, sup_vars, auth_vars>>

-----------------------------------------------------------------------------
(* Bounds *)

MaxKwargs == 4      \* keys in one OPTIONS mapping
MaxConfigs == 2     \* entries in one configuration list
MaxUrlLen == 3      \* characters of a base URL
MaxTopics == 2      \* entries of a TOPICS list
MaxMsgs == 2        \* messages one listener reads
MaxCount == 3000    \* heartbeats the handler is driven with
MaxStreams == 2     \* streams the registry hands to the supervisor
MaxEnvLen == 2      \* length of the value of an environment variable

-----------------------------------------------------------------------------
(* Python values and str operations *)

Str(s) == [str |-> s]
List(l) == [list |-> l]
Bool(b) == [bool |-> b]

Upper == <<"A","B","C","D","E","F","G","H","I","J","K","L","M",
           "N","O","P","Q","R","S","T","U","V","W","X","Y","Z">>
LowerOf == <<"a","b","c","d","e","f","g","h","i","j","k","l","m",
             "n","o","p","q","r","s","t","u","v","w","x","y","z">>

\* str.lower(), one character
LowerChar(c) ==
    IF \E i \in DOMAIN Upper : Upper[i] = c
    THEN LowerOf[CHOOSE i \in DOMAIN Upper : Upper[i] = c]
    ELSE c

\* str.lower()
Lower(s) == [i \in DOMAIN s |-> LowerChar(s[i])]

\* sep.join(l)
RECURSIVE Join(_, _)
Join(sep, l) ==
    IF l = <<>> THEN <<>>
    ELSE IF Len(l) = 1 THEN l[1]
    ELSE l[1] \o sep \o Join(sep, Tail(l))

\* for a dict given as a list of (k, v) items: its keys
Keys(items) == {items[i].k : i \in DOMAIN items}
KeyList(items) == [i \in DOMAIN items |-> items[i].k]
HasKey(items, key) == key \in Keys(items)
Get(items, key) == items[CHOOSE i \in DOMAIN items : items[i].k = key].v

-----------------------------------------------------------------------------
(* The option keys the classes name *)

URL == <<"U","R","L">>
USERNAME == <<"U","S","E","R","N","A","M","E">>
PASSWORD == <<"P","A","S","S","W","O","R","D">>
TOPICS == <<"T","O","P","I","C","S">>
ACTIVE == <<"A","C","T","I","V","E">>

(* The stream classes.  defines: the methods the class body defines;       *)
(* AlertStream declares listen an abc.abstractmethod.                      *)

HOP == "tom_alertstreams.alertstreams.hopskotch.HopskotchAlertStream"
HOP_OLD == "tom_alertstreams.alertstreams.alertstream.HopskotchAlertStream"
GCN == "tom_alertstreams.alertstreams.alertstream.GCNClassicAlertStream"

Classes == {HOP, HOP_OLD, GCN}

required_keys(cls) ==
    IF cls = GCN THEN {USERNAME, PASSWORD} ELSE {URL, USERNAME, PASSWORD}

allowed_keys(cls) ==
    IF cls = GCN THEN {USERNAME, PASSWORD, TOPICS}
    ELSE {URL, USERNAME, PASSWORD, TOPICS}

defines(cls) ==
    IF cls = GCN THEN {"__init__", "sample_code"}
    ELSE {"__init__", "get_stream_url", "get_stream", "listen", "_heartbeat_handler"}

\* the abstract methods of AlertStream a subclass leaves undefined
abstractmethods(cls) == {"listen"} \ defines(cls)

\* a subclass of AlertStream defined outside this package, as the docstring of
\* AlertStream describes, and named by a configuration entry
USER == "myproject.alertstreams.MyAlertStream"

\* type(self).__qualname__
_get_stream_classname(cls) ==
    IF cls = GCN THEN "GCNClassicAlertStream"
    ELSE IF cls = USER THEN "MyAlertStream"
    ELSE "HopskotchAlertStream"

NoExc == [type |-> "None"]

\* (variant) keys matched without regard to letter case
C6_init_caseless(cls, kw) ==
    LET low(S) == {Lower(k) : k \in S}
        copied == {i \in DOMAIN kw : Lower(kw[i].k) \in low(allowed_keys(cls))}
        dict == [a \in {Lower(kw[i].k) : i \in copied} |->
                    kw[CHOOSE i \in copied : /\ Lower(kw[i].k) = a
                                             /\ \A j \in copied :
                                                  Lower(kw[j].k) = a => j <= i].v]
        missing_keys == {k \in required_keys(cls) : Lower(k) \notin low(Keys(kw))}
    IN  IF missing_keys # {}
        THEN [exc |-> [type |-> "ImproperlyConfigured", what |-> "missing",
                       classname |-> _get_stream_classname(cls),
                       missing |-> missing_keys, found |-> KeyList(kw)],
              obj |-> [cls |-> cls, dict |-> dict]]
        ELSE [exc |-> NoExc, obj |-> [cls |-> cls, dict |-> dict]]

\* AlertStream.__init__(self, **kwargs) on a fresh instance of cls: the instance
\* (whose __dict__ was updated before the check) and the exception raised, if any
AlertStream_init(cls, kw) ==
    LET copied == {i \in DOMAIN kw : kw[i].k \in allowed_keys(cls)}
        dict == [a \in {Lower(kw[i].k) : i \in copied} |->
                    kw[CHOOSE i \in copied : /\ Lower(kw[i].k) = a
                                             /\ \A j \in copied :
                                                  Lower(kw[j].k) = a => j <= i].v]
        missing_keys == required_keys(cls) \ Keys(kw)
    IN  IF missing_keys # {}
        THEN [exc |-> [type |-> "ImproperlyConfigured", what |-> "missing",
                       classname |-> _get_stream_classname(cls),
                       missing |-> missing_keys, found |-> KeyList(kw)],
              obj |-> [cls |-> cls, dict |-> dict]]
        ELSE [exc |-> NoExc, obj |-> [cls |-> cls, dict |-> dict]]

\* cls called with kw: abc refuses to instantiate a class with abstract methods, before
\* __init__ runs
New(cls, kw) ==
    IF abstractmethods(cls) # {}
    THEN [exc |-> [type |-> "TypeError", what |-> "abstract",
                   classname |-> _get_stream_classname(cls)],
          obj |-> [cls |-> cls, dict |-> <<>>]]
    ELSE AlertStream_init(cls, kw)

-----------------------------------------------------------------------------
(* Idle values of the parts a specification does not exercise *)

gas_idle ==
    /\ alert_stream_configs = <<>> /\ cfg_i = 1 /\ alert_streams = <<>>
    /\ gas_pc = "idle" /\ gas_exc = NoExc /\ gas_trace = <<>>
new_idle ==
    /\ klass = HOP /\ kwargs = <<>> /\ new_pc = "idle" /\ new_result = NoExc
url_idle ==
    /\ self = NoExc /\ url_pc = "idle" /\ url_result = NoExc
lst_idle ==
    /\ lst_self = NoExc /\ lst_pc = "idle" /\ lst_n = 0 /\ lst_last = NoExc
    /\ lst_calls = <<>> /\ lst_log = <<>> /\ lst_exc = NoExc
sup_idle ==
    /\ sup_pc = "idle" /\ sup_build = NoExc /\ sup_streams = <<>> /\ sup_cur = 0 /\ sup_procs = <<>>
    /\ sup_log = <<>> /\ sup_signal = "none" /\ sup_j = 1
auth_idle ==
    /\ environ = <<>> /\ auth_pc = "idle" /\ auth_result = NoExc

-----------------------------------------------------------------------------
(* Construction of one stream: klass called with OPTIONS *)

LOWER_URL == <<"u","r","l">>
GROUP_ID == <<"G","R","O","U","P","_","I","D">>

OptionKeys == {URL, USERNAME, PASSWORD, TOPICS, ACTIVE, LOWER_URL, GROUP_ID}

ValueOf(k) ==
    IF k = URL THEN Str(<<"h","/">>)
    ELSE IF k = LOWER_URL THEN Str(<<"h">>)
    ELSE IF k = USERNAME THEN Str(<<"u">>)
    ELSE IF k = PASSWORD THEN Str(<<"p">>)
    ELSE IF k = TOPICS THEN List(<<<<"t","1">>, <<"t","2">>>>)
    ELSE IF k = ACTIVE THEN Bool(TRUE)
    ELSE Str(<<"g">>)

\* the key lists of the dicts of at most n distinct keys, in insertion order
KeyLists(n) ==
    {ks \in UNION {[1..m -> OptionKeys] : m \in 0..n} :
        \A i, j \in DOMAIN ks : ks[i] = ks[j] => i = j}

Items(ks) == [i \in DOMAIN ks |-> [k |-> ks[i], v |-> ValueOf(ks[i])]]

InitNew ==
    /\ klass \in Classes
    /\ kwargs \in {Items(ks) : ks \in KeyLists(MaxKwargs)}
    /\ new_pc = "call"
    /\ new_result = NoExc
    /\ gas_idle /\ url_idle /\ lst_idle /\ sup_idle /\ auth_idle

Construct ==
    /\ new_pc = "call"
    /\ new_result' = New(klass, kwargs)
    /\ new_pc' = "done"
    /\ UNCHANGED <<klass, kwargs, gas_vars, url_vars, lst_vars, sup_vars, auth_vars>>

NextNew == Construct

SpecNew == InitNew /\ [][NextNew]_vars

-----------------------------------------------------------------------------
(* get_alert_streams(alert_stream_configs) *)

NO_SUCH == "tom_alertstreams.alertstreams.hopskotch.NoSuchStream"
NO_DOTS == "Hopskotch"

Names == Classes \cup {NO_SUCH, NO_DOTS}

\* django's import_string(dotted_path): the class, or ImportError
import_string(name) ==
    IF name \in Classes
    THEN [exc |-> NoExc, klass |-> name]
    ELSE [exc |-> [type |-> "ImportError", name |-> name], klass |-> name]

\* the OPTIONS of the configurations drawn: with or without PASSWORD, and
\* ACTIVE absent, True or False
Options(with_password, active) ==
    <<[k |-> URL, v |-> Str(<<"h","/">>)], [k |-> USERNAME, v |-> Str(<<"u">>)]>>
    \o (IF with_password THEN <<[k |-> PASSWORD, v |-> Str(<<"p">>)]>> ELSE <<>>)
    \o (IF active = "absent" THEN <<>>
        ELSE <<[k |-> ACTIVE, v |-> Bool(active = "True")]>>)

Entries ==
    {[NAME |-> n, OPTIONS |-> Options(w, a)] :
        n \in Names, w \in BOOLEAN, a \in {"absent", "True", "False"}}

\* (variant) the ACTIVE flag is not looked at
C1_active_always(alert_stream_config) == TRUE

\* alert_stream_config['OPTIONS'].get('ACTIVE', True)
is_active(alert_stream_config) ==
    IF HasKey(alert_stream_config.OPTIONS, ACTIVE)
    THEN Get(alert_stream_config.OPTIONS, ACTIVE).bool
    ELSE TRUE

Event(ev, i) == [ev |-> ev, i |-> i]

InitRegistry ==
    /\ alert_stream_configs \in UNION {[1..n -> Entries] : n \in 0..MaxConfigs}
    /\ cfg_i = 1
    /\ alert_streams = <<>>
    /\ gas_pc = "loop"
    /\ gas_exc = NoExc
    /\ gas_trace = <<>>
    /\ new_idle /\ url_idle /\ lst_idle /\ sup_idle /\ auth_idle

InLoop == gas_pc = "loop" /\ cfg_i <= Len(alert_stream_configs)

\* the entry is not active: log and continue
SkipInactive ==
    /\ InLoop
    /\ ~is_active(alert_stream_configs[cfg_i])
    /\ gas_trace' = Append(gas_trace, Event("ignore", cfg_i))
    /\ cfg_i' = cfg_i + 1
    /\ UNCHANGED <<alert_stream_configs, alert_streams, gas_pc, gas_exc>>
    /\ UNCHANGED <<new_vars, url_vars, lst_vars, sup_vars, auth_vars>>

\* (variant) an entry whose NAME does not resolve is passed over
C3_import_fails_skip ==
    /\ InLoop
    /\ is_active(alert_stream_configs[cfg_i])
    /\ import_string(alert_stream_configs[cfg_i].NAME).exc # NoExc
    /\ gas_trace' = Append(gas_trace, Event("import", cfg_i))
    /\ cfg_i' = cfg_i + 1
    /\ UNCHANGED <<alert_stream_configs, alert_streams, gas_pc, gas_exc>>
    /\ UNCHANGED <<new_vars, url_vars, lst_vars, sup_vars, auth_vars>>

\* import_string raises ImportError: ImproperlyConfigured leaves the function
ImportFails ==
    /\ InLoop
    /\ is_active(alert_stream_configs[cfg_i])
    /\ import_string(alert_stream_configs[cfg_i].NAME).exc # NoExc
    /\ gas_trace' = Append(gas_trace, Event("import", cfg_i))
    /\ gas_pc' = "raised"
    /\ gas_exc' = [type |-> "ImproperlyConfigured", what |-> "import",
                   name |-> alert_stream_configs[cfg_i].NAME]
    /\ UNCHANGED <<alert_stream_configs, cfg_i, alert_streams>>
    /\ UNCHANGED <<new_vars, url_vars, lst_vars, sup_vars, auth_vars>>

\* klass called with OPTIONS raises: the exception leaves the function
ConstructRaises ==
    /\ InLoop
    /\ is_active(alert_stream_configs[cfg_i])
    /\ import_string(alert_stream_configs[cfg_i].NAME).exc = NoExc
    /\ LET made == New(import_string(alert_stream_configs[cfg_i].NAME).klass,
                       alert_stream_configs[cfg_i].OPTIONS)
       IN  /\ made.exc # NoExc
           /\ gas_exc' = made.exc
    /\ gas_trace' = gas_trace \o <<Event("import", cfg_i), Event("construct", cfg_i)>>
    /\ gas_pc' = "raised"
    /\ UNCHANGED <<alert_stream_configs, cfg_i, alert_streams>>
    /\ UNCHANGED <<new_vars, url_vars, lst_vars, sup_vars, auth_vars>>

\* (variant) the new stream is put in front
C2_prepend(list, x) == <<x>> \o list

\* alert_streams.append(alert_stream)
list_append(list, x) == Append(list, x)

\* klass called with OPTIONS returns an instance: it is appended
ConstructAppends ==
    /\ InLoop
    /\ is_active(alert_stream_configs[cfg_i])
    /\ import_string(alert_stream_configs[cfg_i].NAME).exc = NoExc
    /\ LET made == New(import_string(alert_stream_configs[cfg_i].NAME).klass,
                       alert_stream_configs[cfg_i].OPTIONS)
       IN  /\ made.exc = NoExc
           /\ alert_streams' = list_append(alert_streams, made.obj)
    /\ gas_trace' = gas_trace \o <<Event("import", cfg_i), Event("construct", cfg_i),
                                   Event("append", cfg_i)>>
    /\ cfg_i' = cfg_i + 1
    /\ UNCHANGED <<alert_stream_configs, gas_pc, gas_exc>>
    /\ UNCHANGED <<new_vars, url_vars, lst_vars, sup_vars, auth_vars>>

\* the loop is over: return alert_streams
ReturnStreams ==
    /\ gas_pc = "loop"
    /\ cfg_i > Len(alert_stream_configs)
    /\ gas_pc' = "returned"
    /\ UNCHANGED <<alert_stream_configs, cfg_i, alert_streams, gas_exc, gas_trace>>
    /\ UNCHANGED <<new_vars, url_vars, lst_vars, sup_vars, auth_vars>>

NextRegistry ==
    \/ SkipInactive
    \/ ImportFails
    \/ ConstructRaises
    \/ ConstructAppends
    \/ ReturnStreams

SpecRegistry == InitRegistry /\ [][NextRegistry]_vars

-----------------------------------------------------------------------------
(* Properties of get_alert_streams, under SpecRegistry *)

\* what the configuration says of an entry, read off the entry itself
FlagFalse(e) == HasKey(e.OPTIONS, ACTIVE) /\ Get(e.OPTIONS, ACTIVE) = Bool(FALSE)
FlagAbsentOrTrue(e) ==
    \/ ~HasKey(e.OPTIONS, ACTIVE)
    \/ Get(e.OPTIONS, ACTIVE) = Bool(TRUE)
Resolvable(e) == e.NAME \in Classes
\* a valid entry: NAME is a stream class that can be instantiated and OPTIONS
\* supplies each of its required keys
Valid(e) ==
    /\ Resolvable(e)
    /\ abstractmethods(e.NAME) = {}
    /\ required_keys(e.NAME) \subseteq Keys(e.OPTIONS)

EventsOf(i) == {n \in DOMAIN gas_trace : gas_trace[n].i = i}

\* C1: an entry whose OPTIONS has ACTIVE = False is skipped before any name
\* resolution or construction: the only thing done for it is the "ignoring"
\* log line, no instance is appended for it and no exception is raised at it,
\* whatever its NAME and its keys.
C1_InactiveSkipped ==
    \A i \in DOMAIN alert_stream_configs :
        FlagFalse(alert_stream_configs[i]) =>
            /\ \A n \in EventsOf(i) : gas_trace[n].ev = "ignore"
            /\ Cardinality(EventsOf(i)) = (IF i < cfg_i THEN 1 ELSE 0)
            /\ ~(gas_pc = "raised" /\ cfg_i = i)
            /\ Len(alert_streams) =
                 Cardinality({n \in DOMAIN gas_trace : gas_trace[n].ev = "append"})

\* the build returned although an inactive entry had an unresolvable NAME and
\* another inactive entry lacked a required key
C1_Witness ==
    /\ gas_pc = "returned"
    /\ \E i \in DOMAIN alert_stream_configs :
          FlagFalse(alert_stream_configs[i]) /\ ~Resolvable(alert_stream_configs[i])
    /\ \E i \in DOMAIN alert_stream_configs :
          /\ FlagFalse(alert_stream_configs[i])
          /\ PASSWORD \notin Keys(alert_stream_configs[i].OPTIONS)

\* the entries whose ACTIVE flag is absent or True, in configuration order
Wanted == SelectSeq(alert_stream_configs, FlagAbsentOrTrue)

\* C2: when every active entry is valid, get_alert_streams raises nothing and
\* returns one instance per entry whose ACTIVE flag is absent or True, of that
\* entry's class and carrying that entry's options, in configuration order.
C2_OnePerActiveInOrder ==
    (\A i \in DOMAIN Wanted : Valid(Wanted[i])) =>
        /\ gas_pc # "raised"
        /\ gas_pc = "returned" =>
              /\ Len(alert_streams) = Len(Wanted)
              /\ \A i \in DOMAIN Wanted :
                    /\ alert_streams[i].cls = Wanted[i].NAME
                    /\ alert_streams[i] = New(Wanted[i].NAME, Wanted[i].OPTIONS).obj

\* two streams of different classes were returned, in the order of their
\* entries, one of them from an entry without an ACTIVE key
C2_Witness ==
    /\ gas_pc = "returned"
    /\ Len(alert_streams) = 2
    /\ alert_streams[1].cls # alert_streams[2].cls
    /\ \E i \in DOMAIN Wanted : ~HasKey(Wanted[i].OPTIONS, ACTIVE)
    /\ \E i \in DOMAIN Wanted : HasKey(Wanted[i].OPTIONS, ACTIVE)

ActiveUnresolvable ==
    {i \in DOMAIN alert_stream_configs :
        /\ FlagAbsentOrTrue(alert_stream_configs[i])
        /\ ~Resolvable(alert_stream_configs[i])}

\* C3 as stated: if any active entry's NAME cannot be resolved, the build never
\* returns a list and the exception that leaves it is a configuration error
\* naming an unresolvable identifier of the list (lists with an active entry
\* of a class that cannot be instantiated set aside).
C3_AsStated ==
    (/\ ActiveUnresolvable # {}
     /\ \A i \in DOMAIN Wanted :
           Resolvable(Wanted[i]) => abstractmethods(Wanted[i].NAME) = {}) =>
        /\ gas_pc # "returned"
        /\ gas_pc = "raised" =>
              /\ gas_exc.type = "ImproperlyConfigured"
              /\ gas_exc.what = "import"
              /\ \E i \in ActiveUnresolvable :
                    gas_exc.name = alert_stream_configs[i].NAME

\* C3 (amended): if any active entry's NAME cannot be resolved, the build never
\* returns a list: it is aborted at the first active entry that fails.  When
\* every active entry before the first unresolvable one is valid, the
\* exception is a configuration error naming that entry's identifier.
C3_AbortsAtFirstFailure ==
    ActiveUnresolvable # {} =>
        LET first == CHOOSE i \in ActiveUnresolvable :
                        \A j \in ActiveUnresolvable : i <= j
        IN  /\ gas_pc # "returned"
            /\ gas_pc = "raised" => cfg_i <= first
            /\ (/\ gas_pc = "raised"
                /\ \A j \in 1..(first - 1) :
                      FlagAbsentOrTrue(alert_stream_configs[j]) =>
                          Valid(alert_stream_configs[j]))
               => /\ cfg_i = first
                  /\ gas_exc = [type |-> "ImproperlyConfigured", what |-> "import",
                                name |-> alert_stream_configs[first].NAME]

\* the build was aborted at an unresolvable NAME after an earlier entry had
\* been constructed and appended
C3_Witness ==
    /\ gas_pc = "raised"
    /\ gas_exc.type = "ImproperlyConfigured"
    /\ gas_exc.what = "import"
    /\ gas_exc.name = NO_SUCH
    /\ Len(alert_streams) >= 1

-----------------------------------------------------------------------------
(* Properties of construction, under SpecNew *)

Supplied == Keys(kwargs)
Missing == required_keys(klass) \ Supplied

\* the attributes the supplied options give an instance: the lowercased name of
\* each supplied key that is in allowed_keys, with that key's value
ExpectedDict ==
    [a \in {Lower(k) : k \in Supplied \cap allowed_keys(klass)} |->
        Get(kwargs, CHOOSE k \in Supplied \cap allowed_keys(klass) : Lower(k) = a)]

\* C4 as stated: for every stream variant and every options mapping lacking a
\* required key, construction fails with a configuration error whose missing
\* keys are required_keys minus the supplied keys and whose found keys are the
\* supplied keys.
C4_MissingKeysError ==
    (new_pc = "done" /\ Missing # {}) =>
        /\ new_result.exc.type = "ImproperlyConfigured"
        /\ new_result.exc.missing = Missing
        /\ new_result.exc.found = KeyList(kwargs)

\* C5 as stated: for every stream variant and every options mapping holding
\* all required keys, construction succeeds and the attributes are the
\* lowercased allowed keys supplied, with their values.
C5_CompleteOptionsConstruct ==
    (new_pc = "done" /\ Missing = {}) =>
        /\ new_result.exc = NoExc
        /\ new_result.obj.dict = ExpectedDict

Concrete == abstractmethods(klass) = {}

\* C6 as stated: keys are matched without regard to case, so options that
\* supply every required key in some casing are accepted and copied.
C6_AsStated ==
    (/\ new_pc = "done"
     /\ Concrete
     /\ \A r \in required_keys(klass) : \E k \in Supplied : Lower(k) = Lower(r))
    => /\ new_result.exc = NoExc
       /\ \A r \in required_keys(klass) : Lower(r) \in DOMAIN new_result.obj.dict

\* C6 (amended): option keys are case-sensitive.  A supplied key is matched
\* against allowed_keys and required_keys exactly as written; only the name of
\* the attribute it is copied to is lowercased.  Options are accepted exactly
\* when every required key is supplied in its exact casing, and a key supplied
\* in another casing is neither counted as present nor copied.
C6_KeysCaseSensitive ==
    (new_pc = "done" /\ Concrete) =>
        /\ new_result.exc = NoExc <=> required_keys(klass) \subseteq Supplied
        /\ new_result.exc # NoExc =>
              /\ new_result.exc.type = "ImproperlyConfigured"
              /\ new_result.exc.missing = Missing
        /\ new_result.obj.dict = ExpectedDict
        /\ \A k \in Supplied \ allowed_keys(klass) :
              Lower(k) \in DOMAIN new_result.obj.dict =>
                  \E k2 \in Supplied \cap allowed_keys(klass) :
                      /\ Lower(k2) = Lower(k)
                      /\ new_result.obj.dict[Lower(k)] = Get(kwargs, k2)

\* 'url' was supplied for 'URL', with USERNAME and PASSWORD: rejected, URL missing
C6_Witness ==
    /\ new_pc = "done"
    /\ klass = HOP
    /\ LOWER_URL \in Supplied
    /\ {USERNAME, PASSWORD} \subseteq Supplied
    /\ new_result.exc.type = "ImproperlyConfigured"
    /\ new_result.exc.missing = {URL}
    /\ LOWER_URL \notin DOMAIN new_result.obj.dict

-----------------------------------------------------------------------------
(* get_stream_url *)

url_attr == <<"u","r","l">>
topics_attr == <<"t","o","p","i","c","s">>

Returned(v) == [exc |-> NoExc, value |-> v]
Raised(type) == [exc |-> [type |-> type], value |-> <<>>]

\* AlertStream.get_stream_url: return self.url
AlertStream_get_stream_url(obj) ==
    IF url_attr \in DOMAIN obj.dict
    THEN Returned(obj.dict[url_attr].str)
    ELSE Raised("AttributeError")

\* (variant) the separator is appended without looking at the base
C7_url_always_slash(obj) ==
    LET base == AlertStream_get_stream_url(obj)
    IN  IF base.exc # NoExc THEN base
        ELSE IF base.value = <<>> THEN Raised("IndexError")
        ELSE IF topics_attr \notin DOMAIN obj.dict THEN Raised("AttributeError")
        ELSE Returned((base.value \o <<"/">>)
                      \o Join(<<",">>, obj.dict[topics_attr].list))

\* (variant) the topics are joined last to first
C8_url_topics_reversed(obj) ==
    LET base == AlertStream_get_stream_url(obj)
        rev(l) == [i \in DOMAIN l |-> l[Len(l) + 1 - i]]
    IN  IF base.exc # NoExc THEN base
        ELSE IF base.value = <<>> THEN Raised("IndexError")
        ELSE IF topics_attr \notin DOMAIN obj.dict THEN Raised("AttributeError")
        ELSE Returned((IF base.value[Len(base.value)] # "/"
                       THEN base.value \o <<"/">> ELSE base.value)
                      \o Join(<<",">>, rev(obj.dict[topics_attr].list)))

\* HopskotchAlertStream.get_stream_url of hopskotch.py: base_stream_url[-1] is
\* an IndexError on an empty str, self.topics an AttributeError without TOPICS
HopskotchAlertStream_get_stream_url(obj) ==
    LET base == AlertStream_get_stream_url(obj)
    IN  IF base.exc # NoExc THEN base
        ELSE IF base.value = <<>> THEN Raised("IndexError")
        ELSE IF topics_attr \notin DOMAIN obj.dict THEN Raised("AttributeError")
        ELSE Returned((IF base.value[Len(base.value)] # "/"
                       THEN base.value \o <<"/">> ELSE base.value)
                      \o Join(<<",">>, obj.dict[topics_attr].list))

\* HopskotchAlertStream.get_stream_url of alertstream.py
OldHopskotchAlertStream_get_stream_url(obj) ==
    LET base == AlertStream_get_stream_url(obj)
    IN  IF base.exc # NoExc THEN base
        ELSE IF base.value = <<>> THEN Raised("IndexError")
        ELSE IF topics_attr \notin DOMAIN obj.dict THEN Raised("AttributeError")
        ELSE Returned((IF base.value[Len(base.value)] # "/"
                       THEN base.value \o <<"/">> ELSE base.value)
                      \o Join(<<",">>, obj.dict[topics_attr].list))

\* obj.get_stream_url(), by the class of obj
get_stream_url(obj) ==
    IF obj.cls = HOP THEN HopskotchAlertStream_get_stream_url(obj)
    ELSE OldHopskotchAlertStream_get_stream_url(obj)

\* the base URLs and TOPICS lists drawn
UrlChars == {"h", "/"}
Urls == UNION {[1..n -> UrlChars] : n \in 0..MaxUrlLen}
TopicNames == {<<"a">>, <<"b">>, <<"t","1">>}
TopicLists == UNION {[1..n -> TopicNames] : n \in 0..MaxTopics}

HopOptions(u, with_topics, topics) ==
    <<[k |-> URL, v |-> Str(u)], [k |-> USERNAME, v |-> Str(<<"u">>)],
      [k |-> PASSWORD, v |-> Str(<<"p">>)]>>
    \o (IF with_topics THEN <<[k |-> TOPICS, v |-> List(topics)]>> ELSE <<>>)

\* the streams the registry can have constructed from those options
HopStreams ==
    {New(c, HopOptions(u, TRUE, t)).obj : c \in {HOP, HOP_OLD}, u \in Urls, t \in TopicLists}
    \cup {New(c, HopOptions(u, FALSE, <<>>)).obj : c \in {HOP, HOP_OLD}, u \in Urls}

InitUrl ==
    /\ self \in HopStreams
    /\ url_pc = "call"
    /\ url_result = NoExc
    /\ gas_idle /\ new_idle /\ lst_idle /\ sup_idle /\ auth_idle

GetStreamUrl ==
    /\ url_pc = "call"
    /\ url_result' = get_stream_url(self)
    /\ url_pc' = "done"
    /\ UNCHANGED <<self, gas_vars, new_vars, lst_vars, sup_vars, auth_vars>>

NextUrl == GetStreamUrl

SpecUrl == InitUrl /\ [][NextUrl]_vars

-----------------------------------------------------------------------------
(* Properties of get_stream_url, under SpecUrl *)

\* the stream self with another base URL
WithUrl(u) == [self EXCEPT !.dict = [self.dict EXCEPT ![url_attr] = Str(u)]]

Configured == self.dict[url_attr].str
EndsWithSlash(u) == u # <<>> /\ u[Len(u)] = "/"
HasTopics == topics_attr \in DOMAIN self.dict

\* C7: for a stream with a base URL b that does not end with '/', and the same
\* stream configured with b followed by '/', get_stream_url returns the same
\* target: b, one '/', then the comma-joined topics.
C7_TrailingSlashSameTarget ==
    (url_pc = "done" /\ HasTopics /\ Configured # <<>>) =>
        LET b == IF EndsWithSlash(Configured)
                 THEN SubSeq(Configured, 1, Len(Configured) - 1)
                 ELSE Configured
            other == IF EndsWithSlash(Configured) THEN b ELSE b \o <<"/">>
            topics == Join(<<",">>, self.dict[topics_attr].list)
        IN  (b # <<>> /\ ~EndsWithSlash(b)) =>
                /\ url_result.exc = NoExc
                /\ url_result = get_stream_url(WithUrl(other))
                /\ url_result.value = (b \o <<"/">>) \o topics

\* a target was built from a base without a trailing '/', and one from a base
\* with it
C7_Witness ==
    /\ url_pc = "done"
    /\ HasTopics
    /\ Configured = <<"h">>
    /\ self.dict[topics_attr].list = <<<<"t","1">>, <<"a">>>>
    /\ url_result.value = <<"h", "/", "t", "1", ",", "a">>

\* str.split(',') of a target's topic part
RECURSIVE SplitCommas(_, _)
SplitCommas(s, cur) ==
    IF s = <<>> THEN <<cur>>
    ELSE IF Head(s) = "," THEN <<cur>> \o SplitCommas(Tail(s), <<>>)
    ELSE SplitCommas(Tail(s), Append(cur, Head(s)))

\* C8: the topic part of a returned target (what follows the base and its
\* '/') is the configured topics joined by commas in the configured order:
\* split at the commas it is the configured list, entry by entry.
C8_TopicsInConfiguredOrder ==
    (url_pc = "done" /\ url_result.exc = NoExc) =>
        LET base == IF EndsWithSlash(Configured) THEN Configured
                    ELSE Configured \o <<"/">>
            part == SubSeq(url_result.value, Len(base) + 1, Len(url_result.value))
            topics == self.dict[topics_attr].list
        IN  /\ SubSeq(url_result.value, 1, Len(base)) = base
            /\ IF topics = <<>> THEN part = <<>>
               ELSE SplitCommas(part, <<>>) = topics

\* topics ["b", "a"] gave a target ending in b,a
C8_Witness ==
    /\ url_pc = "done"
    /\ url_result.exc = NoExc
    /\ self.dict[topics_attr].list = <<<<"b">>, <<"a">>>>
    /\ Configured = <<"h", "/">>
    /\ url_result.value = <<"h", "/", "b", ",", "a">>

-----------------------------------------------------------------------------
(* HopskotchAlertStream.listen *)

Num(n) == [num |-> n]
Text(t) == [text |-> t]

\* heartbeat.content of the messages drawn: a dict that may lack "timestamp"
\* or "count", or hold a str where a number is expected
Fields == {"timestamp", "count"}
FieldValues(f) ==
    IF f = "timestamp" THEN {Num(1000000), Text("soon")}
    ELSE {Num(1), Num(1000), Text("many")}
Contents ==
    UNION {{c \in [D -> UNION {FieldValues(f) : f \in D}] :
                \A f \in D : c[f] \in FieldValues(f)} : D \in SUBSET Fields}

MessageTopics == {"sys.heartbeat", "gcn.circular"}
Messages == [topic : MessageTopics, content : Contents]

Info(what, content) == [level |-> "info", what |-> what, content |-> content]
NoHandlerError(topic) ==
    [level |-> "error", what |-> "received but no handler defined", topic |-> topic]

\* content["timestamp"]/1e6: KeyError without the key, TypeError on a str
TimestampExc(content) ==
    IF "timestamp" \notin DOMAIN content THEN [type |-> "KeyError"]
    ELSE IF "num" \notin DOMAIN content["timestamp"] THEN [type |-> "TypeError"]
    ELSE NoExc

\* _heartbeat_handler of hopskotch.py: what it logs and what it raises
HopskotchAlertStream_heartbeat_handler(content) ==
    IF TimestampExc(content) # NoExc
    THEN [exc |-> TimestampExc(content), logs |-> <<>>]
    ELSE IF "count" \notin DOMAIN content
    THEN [exc |-> [type |-> "KeyError"], logs |-> <<>>]
    ELSE IF "num" \notin DOMAIN content["count"]
    THEN [exc |-> [type |-> "TypeError"], logs |-> <<>>]
    ELSE IF content["count"].num % 1000 = 0
    THEN [exc |-> NoExc, logs |-> <<Info("heartbeat.content dict", content)>>]
    ELSE [exc |-> NoExc, logs |-> <<>>]

\* _heartbeat_handler of alertstream.py
OldHopskotchAlertStream_heartbeat_handler(content) ==
    IF TimestampExc(content) # NoExc
    THEN [exc |-> TimestampExc(content), logs |-> <<>>]
    ELSE [exc |-> NoExc,
          logs |-> <<Info("heartbeat.content dict", content),
                     Info("heartbeat JSONBlob", content),
                     Info("metadata", content)>>]

\* the dispatch table both listen() build
alert_handler == [t \in {"sys.heartbeat"} |-> "_heartbeat_handler"]

\* self._heartbeat_handler(alert, metadata), by the class of self
CallHandler(cls, content) ==
    IF cls = HOP THEN HopskotchAlertStream_heartbeat_handler(content)
    ELSE OldHopskotchAlertStream_heartbeat_handler(content)

Call(m) == [handler |-> alert_handler[m.topic], topic |-> m.topic, content |-> m.content]

\* (variant) the lookup failure is not caught
C9_dispatch_no_except(cls, m) ==
    IF m.topic \notin DOMAIN alert_handler
    THEN [exc |-> [type |-> "KeyError"], calls |-> <<>>, logs |-> <<>>]
    ELSE LET r == CallHandler(cls, m.content)
         IN  [exc |-> r.exc, calls |-> <<Call(m)>>, logs |-> r.logs]

\* (variant) a message with a handler is handed to it twice
C17_dispatch_twice(cls, m) ==
    IF m.topic \notin DOMAIN alert_handler
    THEN [exc |-> NoExc, calls |-> <<>>, logs |-> <<NoHandlerError(m.topic)>>]
    ELSE LET r == CallHandler(cls, m.content)
         IN  IF r.exc = NoExc
             THEN [exc |-> NoExc, calls |-> <<Call(m), Call(m)>>, logs |-> r.logs \o r.logs]
             ELSE IF r.exc.type = "KeyError"
             THEN [exc |-> NoExc, calls |-> <<Call(m)>>,
                   logs |-> r.logs \o <<NoHandlerError(m.topic)>>]
             ELSE [exc |-> r.exc, calls |-> <<Call(m)>>, logs |-> r.logs]

\* the body of the receive loop for one message:
\*   try: alert_handler[metadata.topic](alert, metadata)
\*   except KeyError: logger.error(...)
\* the handler calls made, the log records emitted and the exception that
\* leaves the loop, if any
Dispatch(cls, m) ==
    IF m.topic \notin DOMAIN alert_handler
    THEN [exc |-> NoExc, calls |-> <<>>, logs |-> <<NoHandlerError(m.topic)>>]
    ELSE LET r == CallHandler(cls, m.content)
         IN  IF r.exc = NoExc
             THEN [exc |-> NoExc, calls |-> <<Call(m)>>, logs |-> r.logs]
             ELSE IF r.exc.type = "KeyError"
             THEN [exc |-> NoExc, calls |-> <<Call(m)>>,
                   logs |-> r.logs \o <<NoHandlerError(m.topic)>>]
             ELSE [exc |-> r.exc, calls |-> <<Call(m)>>, logs |-> r.logs]

\* the streams that listen
Listeners ==
    {New(c, HopOptions(<<"h", "/">>, w, <<<<"a">>>>)).obj :
        c \in {HOP, HOP_OLD}, w \in BOOLEAN}

InitListen ==
    /\ lst_self \in Listeners
    /\ lst_pc = "start"
    /\ lst_n = 0
    /\ lst_last = NoExc
    /\ lst_calls = <<>>
    /\ lst_log = <<>>
    /\ lst_exc = NoExc
    /\ gas_idle /\ new_idle /\ url_idle /\ sup_idle /\ auth_idle

\* get_stream_url(), get_stream() and stream.open() succeed
ListenOpen ==
    /\ lst_pc = "start"
    /\ get_stream_url(lst_self).exc = NoExc
    /\ lst_pc' = "reading"
    /\ UNCHANGED <<lst_self, lst_n, lst_last, lst_calls, lst_log, lst_exc>>
    /\ UNCHANGED <<gas_vars, new_vars, url_vars, sup_vars, auth_vars>>

\* get_stream_url() raises: the exception leaves listen()
ListenUrlRaises ==
    /\ lst_pc = "start"
    /\ get_stream_url(lst_self).exc # NoExc
    /\ lst_pc' = "raised"
    /\ lst_exc' = [type |-> get_stream_url(lst_self).exc.type, origin |-> "get_stream_url"]
    /\ UNCHANGED <<lst_self, lst_n, lst_last, lst_calls, lst_log>>
    /\ UNCHANGED <<gas_vars, new_vars, url_vars, sup_vars, auth_vars>>

\* the feed client raises, in stream.open() or in src.read(): the exception
\* leaves listen()
ListenTransportRaises ==
    /\ lst_pc \in {"start", "reading"}
    /\ lst_pc = "start" => get_stream_url(lst_self).exc = NoExc
    /\ lst_pc' = "raised"
    /\ lst_exc' = [type |-> "TransportError", origin |-> "transport"]
    /\ UNCHANGED <<lst_self, lst_n, lst_last, lst_calls, lst_log>>
    /\ UNCHANGED <<gas_vars, new_vars, url_vars, sup_vars, auth_vars>>

\* src.read() yields a message and the loop body runs on it
ListenMessage ==
    /\ lst_pc = "reading"
    /\ lst_n < MaxMsgs
    /\ \E m \in Messages :
          LET d == Dispatch(lst_self.cls, m)
          IN  /\ lst_last' = m
              /\ lst_n' = lst_n + 1
              /\ lst_calls' = lst_calls \o d.calls
              /\ lst_log' = lst_log \o d.logs
              /\ IF d.exc = NoExc
                 THEN lst_pc' = "reading" /\ lst_exc' = lst_exc
                 ELSE /\ lst_pc' = "raised"
                      /\ lst_exc' = [type |-> d.exc.type, origin |-> "handler"]
    /\ UNCHANGED <<lst_self, gas_vars, new_vars, url_vars, sup_vars, auth_vars>>

NextListen ==
    \/ ListenOpen
    \/ ListenUrlRaises
    \/ ListenTransportRaises
    \/ ListenMessage

SpecListen == InitListen /\ [][NextListen]_vars

-----------------------------------------------------------------------------
(* Properties of the receive loop, under SpecListen *)

\* this step read a message
Read == lst_pc = "reading" /\ lst_n' = lst_n + 1

\* C9: when the loop reads a message whose topic has no entry in the dispatch
\* table, nothing is raised, no handler is invoked, exactly one log record
\* naming the topic is emitted and the loop is ready for the next message.
C9_UnhandledTopicLoggedAndDropped ==
    [][(Read /\ lst_last'.topic \notin DOMAIN alert_handler) =>
          /\ lst_pc' = "reading"
          /\ lst_exc' = NoExc
          /\ lst_calls' = lst_calls
          /\ lst_log' = Append(lst_log, NoHandlerError(lst_last'.topic))]_vars

\* a message of a topic without handler was read and logged, and the loop
\* then read and handled a heartbeat
C9_Witness ==
    /\ lst_pc = "reading"
    /\ lst_n = 2
    /\ Len(lst_log) >= 1
    /\ lst_log[1] = NoHandlerError("gcn.circular")
    /\ lst_last.topic = "sys.heartbeat"
    /\ Len(lst_calls) = 1

\* C10 as stated: an exception of any kind raised by a topic handler is caught
\* at the dispatch boundary and the loop continues, so no handler failure ever
\* ends the listener.
C10_HandlerFailureNeverEndsListener ==
    ~(lst_pc = "raised" /\ lst_exc.origin = "handler")

-----------------------------------------------------------------------------
(* _heartbeat_handler driven with the counts 1, 2, 3, ... in order *)

Heartbeat(count) ==
    [topic |-> "sys.heartbeat",
     content |-> [f \in Fields |-> IF f = "timestamp" THEN Num(1000000) ELSE Num(count)]]

InitHeartbeat ==
    /\ lst_self \in {l \in Listeners : get_stream_url(l).exc = NoExc}
    /\ lst_pc = "heartbeats"
    /\ lst_n = 0
    /\ lst_last = NoExc
    /\ lst_calls = <<>>
    /\ lst_log = <<>>
    /\ lst_exc = NoExc
    /\ gas_idle /\ new_idle /\ url_idle /\ sup_idle /\ auth_idle

\* self._heartbeat_handler(heartbeat, metadata) with the next count
HeartbeatHandled ==
    /\ lst_pc = "heartbeats"
    /\ lst_n < MaxCount
    /\ LET m == Heartbeat(lst_n + 1)
           r == CallHandler(lst_self.cls, m.content)
       IN  /\ lst_last' = m
           /\ lst_n' = lst_n + 1
           /\ lst_log' = lst_log \o r.logs
    /\ UNCHANGED <<lst_self, lst_pc, lst_calls, lst_exc>>
    /\ UNCHANGED <<gas_vars, new_vars, url_vars, sup_vars, auth_vars>>

NextHeartbeat == HeartbeatHandled

SpecHeartbeat == InitHeartbeat /\ [][NextHeartbeat]_vars

\* C11: whichever definition of HopskotchAlertStream handles them, after the
\* heartbeats with counts 1..n the log holds one record per count that is a
\* multiple of 1000 and nothing else: 3 records, of the counts 1000, 2000
\* and 3000, after 3000 heartbeats.
C11_LogsEveryThousandth ==
    lst_pc = "heartbeats" =>
        /\ Len(lst_log) = lst_n \div 1000
        /\ \A i \in DOMAIN lst_log : lst_log[i].content["count"] = Num(1000 * i)

-----------------------------------------------------------------------------
(* Command.handle of read_streams *)

\* a multiprocessing.Process: target is the index of the stream whose listen()
\* it runs; state is "initial" (not started), "alive" or "exited"
Process(target) ==
    [target |-> target, state |-> "initial", exitcode |-> 0, terminate |-> FALSE]

\* the ways get_default_alert_streams() can end: the exceptions get_alert_streams
\* raises, or a list of constructed streams
BuildErrors ==
    {[type |-> "ImproperlyConfigured", what |-> "import", name |-> NO_SUCH],
     New(HOP, Options(FALSE, "absent")).exc,
     New(GCN, Options(TRUE, "absent")).exc}
StreamObjects ==
    {New(HOP, Options(TRUE, "absent")).obj, New(HOP_OLD, Options(TRUE, "absent")).obj,
     [cls |-> USER, dict |-> <<>>]}
StreamLists == UNION {[1..n -> StreamObjects] : n \in 0..MaxStreams}

SupLog(what, classname) == [what |-> what, classname |-> classname]
SweepLog(what, classname, proc, exitcode) ==
    [what |-> what, classname |-> classname, proc |-> proc, exitcode |-> exitcode]

InitSupervisor ==
    /\ sup_pc = "build"
    /\ sup_build = [type |-> "pending"]
    /\ sup_streams = <<>>
    /\ sup_cur = 0
    /\ sup_procs = <<>>
    /\ sup_log = <<>>
    /\ sup_signal = "none"
    /\ sup_j = 1
    /\ gas_idle /\ new_idle /\ url_idle /\ lst_idle /\ auth_idle

sup_others == <<gas_vars, new_vars, url_vars, lst_vars, auth_vars>>

\* alert_streams = get_default_alert_streams() returns
BuildReturns ==
    /\ sup_pc = "build"
    /\ \E streams \in StreamLists : sup_streams' = streams
    /\ sup_build' = NoExc
    /\ sup_pc' = "top"
    /\ UNCHANGED <<sup_cur, sup_procs, sup_log, sup_signal, sup_j, sup_others>>

\* (variant) the configuration error is logged and handle() goes on
C15_config_error_goes_on ==
    /\ sup_pc = "build"
    /\ \E err \in BuildErrors :
          /\ err.type = "ImproperlyConfigured"
          /\ sup_build' = err
          /\ sup_log' = Append(sup_log, [what |-> "error", err |-> err])
    /\ sup_pc' = "top"
    /\ UNCHANGED <<sup_streams, sup_cur, sup_procs, sup_signal, sup_j, sup_others>>

\* except ImproperlyConfigured as err: logger.error(err); exit(1)
BuildImproperlyConfigured ==
    /\ sup_pc = "build"
    /\ \E err \in BuildErrors :
          /\ err.type = "ImproperlyConfigured"
          /\ sup_build' = err
          /\ sup_log' = Append(sup_log, [what |-> "error", err |-> err])
    /\ sup_pc' = "exit1"
    /\ UNCHANGED <<sup_streams, sup_cur, sup_procs, sup_signal, sup_j, sup_others>>

\* any other exception of get_default_alert_streams() leaves handle()
BuildRaisesOther ==
    /\ sup_pc = "build"
    /\ \E err \in BuildErrors :
          /\ err.type # "ImproperlyConfigured"
          /\ sup_build' = err
    /\ sup_pc' = "crashed"
    /\ UNCHANGED <<sup_streams, sup_cur, sup_procs, sup_log, sup_signal, sup_j, sup_others>>

\* for alert_stream in alert_streams: p = Process(target=alert_stream.listen);
\* alert_stream_processes.append(p)
SpawnCreate ==
    /\ sup_pc = "top"
    /\ sup_cur < Len(sup_streams)
    /\ sup_cur' = sup_cur + 1
    /\ sup_procs' = Append(sup_procs, Process(sup_cur + 1))
    /\ sup_pc' = "appended"
    /\ UNCHANGED <<sup_build, sup_streams, sup_log, sup_signal, sup_j, sup_others>>

\* (variant) the process is recorded and never started
C12_spawn_no_start ==
    /\ sup_pc = "appended"
    /\ sup_pc' = "started"
    /\ UNCHANGED <<sup_build, sup_streams, sup_cur, sup_procs, sup_log, sup_signal, sup_j,
                   sup_others>>

\* p.start()
SpawnStart ==
    /\ sup_pc = "appended"
    /\ sup_procs' = [sup_procs EXCEPT ![Len(sup_procs)].state = "alive"]
    /\ sup_pc' = "started"
    /\ UNCHANGED <<sup_build, sup_streams, sup_cur, sup_log, sup_signal, sup_j, sup_others>>

\* logger.info(f'read_streams {alert_stream._get_stream_classname()} PID={p.pid}')
SpawnLog ==
    /\ sup_pc = "started"
    /\ sup_log' = Append(sup_log,
                         SupLog("PID", _get_stream_classname(sup_streams[sup_cur].cls)))
    /\ sup_pc' = "top"
    /\ UNCHANGED <<sup_build, sup_streams, sup_cur, sup_procs, sup_signal, sup_j, sup_others>>

\* the for loop is exhausted: the try statement is left
LoopDone ==
    /\ sup_pc = "top"
    /\ sup_cur = Len(sup_streams)
    /\ sup_pc' = "after_try"
    /\ UNCHANGED <<sup_build, sup_streams, sup_cur, sup_procs, sup_log, sup_signal, sup_j,
                   sup_others>>

\* a KeyboardInterrupt is raised inside the try statement:
\* logger.info('read_streams handling KeyboardInterupt')
InterruptInTry ==
    /\ sup_pc \in {"top", "appended", "started"}
    /\ sup_signal = "none"
    /\ sup_signal' = "in_try"
    /\ sup_log' = Append(sup_log, SupLog("handling KeyboardInterupt", ""))
    /\ sup_j' = 1
    /\ sup_pc' = "sweep"
    /\ UNCHANGED <<sup_build, sup_streams, sup_cur, sup_procs, sup_others>>

\* a KeyboardInterrupt is raised outside the try statement: before it, or after
\* the loop, while handle() logs and returns and the command waits for its
\* children; nothing catches it
InterruptOutsideTry ==
    /\ sup_pc \in {"build", "after_try", "returned"}
    /\ sup_signal = "none"
    /\ sup_signal' = "outside_try"
    /\ sup_pc' = "interrupted"
    /\ UNCHANGED <<sup_build, sup_streams, sup_cur, sup_procs, sup_log, sup_j, sup_others>>

\* for p in alert_stream_processes: if p.is_alive(): log 'Terminating', p.terminate()
SweepTerminate ==
    /\ sup_pc = "sweep"
    /\ sup_j <= Len(sup_procs)
    /\ sup_procs[sup_j].state = "alive"
    /\ sup_log' = Append(sup_log,
            SweepLog("Terminating", _get_stream_classname(sup_streams[sup_cur].cls),
                     sup_j, 0))
    /\ sup_procs' = [sup_procs EXCEPT ![sup_j].terminate = TRUE]
    /\ sup_j' = sup_j + 1
    /\ UNCHANGED <<sup_pc, sup_build, sup_streams, sup_cur, sup_signal, sup_others>>

\* else: log the exit code
SweepExitCode ==
    /\ sup_pc = "sweep"
    /\ sup_j <= Len(sup_procs)
    /\ sup_procs[sup_j].state # "alive"
    /\ sup_log' = Append(sup_log,
            SweepLog("exit code", _get_stream_classname(sup_streams[sup_cur].cls),
                     sup_j, sup_procs[sup_j].exitcode))
    /\ sup_j' = sup_j + 1
    /\ UNCHANGED <<sup_pc, sup_build, sup_streams, sup_cur, sup_procs, sup_signal, sup_others>>

\* the sweep is over: the try statement is left
SweepDone ==
    /\ sup_pc = "sweep"
    /\ sup_j > Len(sup_procs)
    /\ sup_pc' = "after_try"
    /\ UNCHANGED <<sup_build, sup_streams, sup_cur, sup_procs, sup_log, sup_signal, sup_j,
                   sup_others>>

\* logger.info('read_streams.Command.handle() exiting.'); return
LogExiting ==
    /\ sup_pc = "after_try"
    /\ sup_log' = Append(sup_log, SupLog("exiting", ""))
    /\ sup_pc' = "returned"
    /\ UNCHANGED <<sup_build, sup_streams, sup_cur, sup_procs, sup_signal, sup_j, sup_others>>

\* (variant) the listeners share one execution context: when one ends, all end
C14_exit_takes_all(procs, k, code) ==
    [j \in DOMAIN procs |->
        IF procs[j].state = "alive"
        THEN [procs[j] EXCEPT !.state = "exited", !.exitcode = code]
        ELSE procs[j]]

\* the process k, which runs alert_stream.listen in a process of its own, ends
listener_exit(procs, k, code) ==
    [procs EXCEPT ![k].state = "exited", ![k].exitcode = code]

\* listen() raises in a child (target, connection or handler failure): the
\* child prints the traceback and exits with code 1
ListenerFails ==
    /\ sup_pc # "idle"
    /\ \E k \in DOMAIN sup_procs :
          /\ sup_procs[k].state = "alive"
          /\ sup_procs' = listener_exit(sup_procs, k, 1)
    /\ UNCHANGED <<sup_pc, sup_build, sup_streams, sup_cur, sup_log, sup_signal, sup_j,
                   sup_others>>

\* a child that was sent SIGTERM by p.terminate() ends
ListenerTerminated ==
    /\ sup_pc # "idle"
    /\ \E k \in DOMAIN sup_procs :
          /\ sup_procs[k].state = "alive"
          /\ sup_procs[k].terminate
          /\ sup_procs' = listener_exit(sup_procs, k, -15)
    /\ UNCHANGED <<sup_pc, sup_build, sup_streams, sup_cur, sup_log, sup_signal, sup_j,
                   sup_others>>

NextSupervisor ==
    \/ BuildReturns
    \/ BuildImproperlyConfigured
    \/ BuildRaisesOther
    \/ SpawnCreate
    \/ SpawnStart
    \/ SpawnLog
    \/ LoopDone
    \/ InterruptInTry
    \/ InterruptOutsideTry
    \/ SweepTerminate
    \/ SweepExitCode
    \/ SweepDone
    \/ LogExiting
    \/ ListenerFails
    \/ ListenerTerminated

SpecSupervisor == InitSupervisor /\ [][NextSupervisor]_vars

\* the sweep has dealt with process k: it asked it to terminate, or logged its
\* exit code
Swept(k) ==
    \/ sup_procs[k].terminate
    \/ \E i \in DOMAIN sup_log :
          /\ sup_log[i].what = "exit code"
          /\ sup_log[i].proc = k

\* C12: when the spawn loop has run to its end, there is exactly one process
\* per stream of the registry, in the registry's order, process i runs the
\* listen() of stream i, and every process has been started.
C12_OneStartedProcessPerStream ==
    (sup_pc \in {"after_try", "returned"} /\ sup_signal = "none") =>
        /\ Len(sup_procs) = Len(sup_streams)
        /\ \A i \in DOMAIN sup_procs :
              /\ sup_procs[i].target = i
              /\ sup_procs[i].state # "initial"

C12_Witness ==
    /\ sup_pc = "returned" /\ sup_signal = "none"
    /\ Len(sup_streams) = 2
    /\ sup_streams[1].cls # sup_streams[2].cls
    /\ \A i \in DOMAIN sup_procs : sup_procs[i].state = "alive"

\* C13: a termination signal that reaches the supervisor after the first
\* listener was spawned, during the spawn loop or after it, is followed by the
\* sweep: once the supervisor has finished, every spawned process was asked to
\* terminate or had its exit code logged.
C13_SignalAlwaysSwept ==
    (sup_signal # "none" /\ sup_procs # <<>> /\ sup_pc \in {"returned", "interrupted"}) =>
        \A k \in DOMAIN sup_procs : Swept(k)

\* C14: when a listener ends because its listen() failed, no other process
\* changes and the supervisor goes on where it was.
C14_ListenerFailureIsolated ==
    [][\A k \in DOMAIN sup_procs :
          (sup_procs[k].state = "alive" /\ sup_procs'[k].state = "exited") =>
              /\ \A j \in DOMAIN sup_procs \ {k} : sup_procs'[j] = sup_procs[j]
              /\ UNCHANGED <<sup_pc, sup_build, sup_streams, sup_cur, sup_log,
                             sup_signal, sup_j>>]_vars

C14_Witness ==
    \E k, j \in DOMAIN sup_procs :
        /\ sup_procs[k].state = "exited" /\ sup_procs[k].exitcode = 1
        /\ sup_procs[j].state = "alive" /\ ~sup_procs[j].terminate
        /\ sup_pc = "returned" /\ sup_signal = "none"

\* C15: when building the registry raises a configuration error, the error is
\* logged, the command exits with code 1 and no process is spawned; processes
\* are only spawned after the registry was built.
C15_ConfigErrorExitsBeforeSpawn ==
    /\ sup_build.type = "ImproperlyConfigured" =>
          /\ sup_pc = "exit1"
          /\ sup_procs = <<>>
          /\ sup_log = <<[what |-> "error", err |-> sup_build]>>
    /\ sup_procs # <<>> => sup_build = NoExc

C15_Witness ==
    /\ sup_pc = "exit1"
    /\ sup_build.type = "ImproperlyConfigured"
    /\ Len(sup_log) = 1

\* C18: every record the sweep logs about a process carries the class name of
\* the stream whose listen() that process runs.
C18_SweepNamesTheProcessStream ==
    \A i \in DOMAIN sup_log :
        sup_log[i].what \in {"Terminating", "exit code"} =>
            sup_log[i].classname =
                _get_stream_classname(sup_streams[sup_procs[sup_log[i].proc].target].cls)

-----------------------------------------------------------------------------
(* HopskotchAlertStream._get_hop_authentication of alertstream.py *)

SCIMMA_AUTH_USERNAME == "SCIMMA_AUTH_USERNAME"
SCIMMA_AUTH_PASSWORD == "SCIMMA_AUTH_PASSWORD"
EnvNames == {SCIMMA_AUTH_USERNAME, SCIMMA_AUTH_PASSWORD}

\* None, and a str value of the environment
None == [set |-> FALSE, value |-> <<>>]
EnvStr(s) == [set |-> TRUE, value |-> s]
EnvChars == {"a", "z"}
EnvValues ==
    {None} \cup {EnvStr(s) : s \in UNION {[1..n -> EnvChars] : n \in 0..MaxEnvLen}}

\* os.getenv(name, default)
getenv(name, default) == IF environ[name].set THEN environ[name] ELSE default

\* the variables the text of error_message names
error_message == {SCIMMA_AUTH_USERNAME, SCIMMA_AUTH_PASSWORD}

\* Auth(username, password)
Auth(username, password) == [username |-> username.value, password |-> password.value]

\* (variant) the credentials are refused only when both variables are absent
C16_auth_needs_one ==
    LET username == getenv(SCIMMA_AUTH_USERNAME, None)
        password == getenv(SCIMMA_AUTH_PASSWORD, None)
    IN  IF username = None /\ password = None
        THEN [exc |-> [type |-> "ImproperlyConfigured", what |-> "credentials",
                       names |-> error_message],
              logged |-> <<error_message>>, value |-> Auth(None, None)]
        ELSE [exc |-> NoExc, logged |-> <<>>, value |-> Auth(username, password)]

_get_hop_authentication ==
    LET username == getenv(SCIMMA_AUTH_USERNAME, None)
        password == getenv(SCIMMA_AUTH_PASSWORD, None)
    IN  IF username = None \/ password = None
        THEN [exc |-> [type |-> "ImproperlyConfigured", what |-> "credentials",
                       names |-> error_message],
              logged |-> <<error_message>>, value |-> Auth(None, None)]
        ELSE [exc |-> NoExc, logged |-> <<>>, value |-> Auth(username, password)]

InitAuth ==
    /\ environ \in [EnvNames -> EnvValues]
    /\ auth_pc = "call"
    /\ auth_result = NoExc
    /\ gas_idle /\ new_idle /\ url_idle /\ lst_idle /\ sup_idle

GetHopAuthentication ==
    /\ auth_pc = "call"
    /\ auth_result' = _get_hop_authentication
    /\ auth_pc' = "done"
    /\ UNCHANGED environ
    /\ UNCHANGED <<gas_vars, new_vars, url_vars, lst_vars, sup_vars>>

NextAuth == GetHopAuthentication

SpecAuth == InitAuth /\ [][NextAuth]_vars

\* the variables that are absent from the environment
Absent == {n \in EnvNames : ~environ[n].set}

\* C16 (as stated): when one or both variables are absent, the configuration
\* error names exactly the absent variables; when both are present the
\* resolution succeeds.
C16_AsStated ==
    auth_pc = "done" =>
        IF Absent = {}
        THEN auth_result.exc = NoExc
        ELSE /\ auth_result.exc.type = "ImproperlyConfigured"
             /\ auth_result.exc.names = Absent

\* C16 (amended): when one or both variables are absent, the resolution logs
\* and raises a configuration error whose fixed text names both variables,
\* whichever is absent, and holds no value of the environment; when both are
\* present, even as empty strings, it returns the credentials made of the two
\* values.
C16_FixedMessageNamesBoth ==
    auth_pc = "done" =>
        IF Absent = {}
        THEN /\ auth_result.exc = NoExc
             /\ auth_result.logged = <<>>
             /\ auth_result.value =
                    [username |-> environ[SCIMMA_AUTH_USERNAME].value,
                     password |-> environ[SCIMMA_AUTH_PASSWORD].value]
        ELSE /\ auth_result.exc.type = "ImproperlyConfigured"
             /\ auth_result.exc.names = EnvNames
             /\ auth_result.logged = <<EnvNames>>

C16_Witness ==
    /\ auth_pc = "done"
    /\ Absent = {SCIMMA_AUTH_PASSWORD}
    /\ environ[SCIMMA_AUTH_USERNAME].value # <<>>
    /\ auth_result.exc.type = "ImproperlyConfigured"

-----------------------------------------------------------------------------
(* the receive loop, continued *)

IsPrefix(a, b) == Len(a) <= Len(b) /\ \A i \in DOMAIN a : a[i] = b[i]

\* C17: the handler calls and the log records of a listener change only in the
\* step that reads a message; that step adds at most one call, which is the
\* call for the message just read, after the calls and records of all earlier
\* messages, and there are never more calls than messages read.
C17_SequentialInOrderAtMostOnce ==
    [][/\ (lst_calls' # lst_calls \/ lst_log' # lst_log) => Read
       /\ Read =>
            /\ \/ lst_calls' = lst_calls
               \/ /\ lst_last'.topic \in DOMAIN alert_handler
                  /\ lst_calls' = Append(lst_calls, Call(lst_last'))
            /\ IsPrefix(lst_log, lst_log')
            /\ Len(lst_calls') <= lst_n']_vars

\* two heartbeats with different contents were read and handled in that order
C17_Witness ==
    /\ lst_pc = "reading"
    /\ lst_n = 2
    /\ Len(lst_calls) = 2
    /\ lst_calls[1].content # lst_calls[2].content
    /\ lst_calls[2] = Call(lst_last)

\* C19: every 'received but no handler defined' record names a topic that is
\* absent from the dispatch table, whatever the handlers of the other topics do.
C19_NoHandlerOnlyForUnknownTopics ==
    \A i \in DOMAIN lst_log :
        lst_log[i].what = "received but no handler defined" =>
            lst_log[i].topic \notin DOMAIN alert_handler

\* C20: every constructed stream resolves its target: get_stream_url returns a
\* string and raises nothing, also without TOPICS and with the empty URL.
C20_EveryStreamResolvesItsTarget ==
    url_pc = "done" => url_result.exc = NoExc

====
